---- MODULE Spec2Model ----
(***************************************************************************)
(* Job Lifecycle & Stock Ledger Engine of the workshop backend.            *)
(*                                                                         *)
(* The specifications share one set of variables:                          *)
(*   SpecJob      - one job card; every handler of jobcard.controller.js   *)
(*                  is one action, any status may be requested.            *)
(*   SpecDelivery - the job card together with its payments; the handlers  *)
(*                  of jobcard.controller.js and payment.controller.js,    *)
(*                  the status requests being ready and delivered.         *)
(*   SpecStock    - the inventory controller; every handler is a process   *)
(*                  that runs its database calls one await at a time, so   *)
(*                  two requests interleave.                               *)
(*   SpecStockSeq - the same handlers, one request at a time.              *)
(*   SpecBilling  - the pure function calculateBilling applied to inputs   *)
(*                  drawn from bounded sets.                               *)
(*                                                                         *)
(* Money is counted in mills (1/1000 rupee) so that an amount with more    *)
(* than two decimals exists and round2 is a real conversion: round2 maps   *)
(* to the nearest multiple of 10 mills (1 paisa), halves up.               *)
(***************************************************************************)
EXTENDS Integers, Sequences, FiniteSets, TLC

(***************************************************************************)
(* Bounds of the model.                                                    *)
(***************************************************************************)
MaxItems == 2
MaxPayments == 2
MaxHistory == 3
MaxLedger == 3

\* refund requests that can be between their two writes at the same time
MaxRefunding == 1

\* the last minute the clock reaches
MaxTime == 45

\* minutes a checkout token stays valid
CHECKOUT_TOKEN_TTL_MINUTES == 30

(***************************************************************************)
(* Program constants.                                                      *)
(***************************************************************************)
DefaultTaxRate == 18
DeliveryTolerance == 10

Statuses ==
  {"created", "inspection", "awaiting-approval", "approved", "in-progress",
   "quality-check", "ready", "delivered", "cancelled"}

MechanicStatuses == {"inspection", "in-progress", "quality-check", "ready"}

PaymentTypes == {"full", "refund"}

PaymentStatuses == {"pending", "completed", "failed", "refunded"}

(***************************************************************************)
(* Request inputs (small sets).                                            *)
(***************************************************************************)
AddItemInputs == { [quantity |-> 1, unitPrice |-> 100000, discount |-> 0] }

BillDiscounts == {0, 20000}

TaxRates == {0, 18}

PayAmounts == {99995}

\* refund amounts: the whole of a payment, and more than any payment
RefundAmounts == {99995, 300000}

\* the gateway: checkout tokens, order ids, the gateway's payment ids (strings
\* as sequences of characters), HMAC keys, and the minutes between two
\* readings of the clock
Tokens == {"t1", "t2"}

OrderIds == {<<"o", "1">>, <<"o", "2">>}

GatewayPaymentIds == {<<"p", "1">>}

RAZORPAY_KEY_SECRET == "secret"

Keys == {RAZORPAY_KEY_SECRET, "guess"}

ElapsedMinutes == {15}

\* status requests of SpecJob (every status the validator admits) and of
\* SpecDelivery (the two statuses the delivery gate is about)
JobStatusInputs == Statuses

DeliveryStatusInputs == {"ready", "delivered"}

(***************************************************************************)
(* The inventory: items, request processes and request inputs.             *)
(***************************************************************************)
Items == {"A", "B"}

Procs == {1, 2}

JobCardIds == {"J1"}

\* a quantity as the request body carries it: the JSON number n, or the JSON
\* string of the digit n, which the validators' isInt accepts as well
Num(n) == [n |-> n, str |-> FALSE]

Str(n) == [n |-> n, str |-> TRUE]

StockQtys == {Num(1), Num(2), Str(1)}

CreateStocks == {0, 2}

AdjustQtys == {Num(0 - 1), Num(0), Num(1)}

DeductReasons == {"damage", "other"}

InvoiceParts ==
  { <<[partId |-> "A", quantity |-> Num(1)]>>,
    <<[partId |-> "A", quantity |-> Str(1)]>>,
    <<[partId |-> "A", quantity |-> Num(1)], [partId |-> "B", quantity |-> Num(1)]>>,
    <<[partId |-> "A", quantity |-> Num(1)], [partId |-> "B", quantity |-> Num(2)]>>,
    <<[partId |-> "A", quantity |-> Num(1)], [partId |-> "A", quantity |-> Num(1)]>> }


VARIABLES
  status,         \* JobCard.status
  jobItems,       \* JobCard.jobItems: sequence of [total, isApproved]
  statusHistory,  \* JobCard.statusHistory: sequence of statuses
  billing,        \* JobCard.billing
  payments,       \* the Payment documents of the job, in creation order:
                  \* [amount, paymentType, status, refundOf], refundOf the
                  \* payment a refund names in its notes, 0 when it names none
  jobReq,         \* the last request handled: <<handler, argument>>
  jobResult,      \* the response to it
  refunding,      \* the refund requests between their two writes: [idx, amount]
  gateway,        \* per payment: checkout.token, checkout.expiresAt,
                  \* transactionDetails.orderId
  now             \* the server clock, in minutes

VARIABLES
  inventory,      \* the committed Inventory documents: item -> [exists, currentStock]
  ledger,         \* the committed InventoryTransaction documents, in insertion order
  txn             \* the inventory request each process is handling

jobVars == <<status, jobItems, statusHistory, billing, payments, jobReq, jobResult,
             refunding, gateway, now>>

gatewayVars == <<gateway, now>>

stockVars == <<inventory, ledger, txn>>

vars == <<status, jobItems, statusHistory, billing, payments, jobReq, jobResult,
          refunding, gateway, now, inventory, ledger, txn>>

Max(a, b) == IF a >= b THEN a ELSE b

Min(a, b) == IF a <= b THEN a ELSE b

(***************************************************************************)
(* round2 of the rational n/d mills (d > 0): Math.round(x * 100) / 100,    *)
(* i.e. the nearest paisa, a half going up.                                *)
(***************************************************************************)
\* a rounding that drops the digits after the second decimal
round2Truncate(n, d) == 10 * (n \div (10 * d))

round2(n, d) == 10 * ((2 * n + 10 * d) \div (20 * d))

RECURSIVE SumTotals(_)
SumTotals(items) ==
  IF items = <<>> THEN 0 ELSE Head(items).total + SumTotals(Tail(items))

\* a calculation that adds the items to the subtotal already stored
calculateBillingAccumulating(items, bill, onlyApproved) ==
  LET usedItems == IF onlyApproved
                     THEN SelectSeq(items, LAMBDA it : it.isApproved) ELSE items
      subtotal == bill.subtotal + SumTotals(usedItems)
      afterDiscount == Max(0, subtotal - Max(0, bill.discount))
  IN  [bill EXCEPT !.subtotal = round2(subtotal, 1),
                   !.taxAmount = round2(afterDiscount * bill.taxRate, 100),
                   !.grandTotal = round2(afterDiscount * 100
                                          + afterDiscount * bill.taxRate, 100)]

(***************************************************************************)
(* JobCard.calculateBilling: the billing record after the call.            *)
(***************************************************************************)
calculateBilling(items, bill, onlyApproved) ==
  LET usedItems == IF onlyApproved
                     THEN SelectSeq(items, LAMBDA it : it.isApproved)
                     ELSE items
      subtotal == SumTotals(usedItems)
      discount == Max(0, bill.discount)
      afterDiscount == Max(0, subtotal - discount)
      taxRate == bill.taxRate
      taxTimes100 == afterDiscount * taxRate
      grandTimes100 == afterDiscount * 100 + taxTimes100
  IN  [bill EXCEPT !.subtotal = round2(subtotal, 1),
                   !.taxAmount = round2(Max(0, taxTimes100), 100),
                   !.grandTotal = round2(Max(0, grandTimes100), 100)]

(***************************************************************************)
(* Payment.getJobCardPayments: totalPaid over the completed payments.      *)
(***************************************************************************)
\* a total that counts payments of every status
RECURSIVE totalPaidAnyStatus(_)
totalPaidAnyStatus(ps) ==
  IF ps = <<>> THEN 0
  ELSE LET p == Head(ps)
       IN  (IF p.paymentType = "refund" THEN 0 - p.amount ELSE p.amount)
             + totalPaidAnyStatus(Tail(ps))

RECURSIVE totalPaid(_)
totalPaid(ps) ==
  IF ps = <<>> THEN 0
  ELSE LET p == Head(ps)
       IN  (IF p.status # "completed" THEN 0
            ELSE IF p.paymentType = "refund" THEN 0 - p.amount
            ELSE p.amount) + totalPaid(Tail(ps))

\* GET /payments/jobcard/:jobCardId: the balance due reported for the job
reportedBalanceDue(bill, ps) == bill.grandTotal - totalPaid(ps)

(***************************************************************************)
(* The balance the delivery gate computes.                                 *)
(***************************************************************************)
deliveryBalanceDue(bill, ps) == Max(0, bill.grandTotal - totalPaid(ps))

(***************************************************************************)
(* JobCard.updateStatus: status and history after the call.                *)
(***************************************************************************)
\* a status change that leaves no trace in the history
updateStatusNoHistory(newStatus) ==
  /\ status' = newStatus
  /\ statusHistory' = statusHistory

updateStatus(newStatus) ==
  /\ status' = newStatus
  /\ statusHistory' = Append(statusHistory, newStatus)

\* a gate that does not look at the balance
deliveryGateNoBalance(newStatus) ==
  IF newStatus # "delivered" THEN "ok"
  ELSE IF status # "ready" THEN "InvalidTransition"
  ELSE "ok"

\* a gate that does not look at the current status
deliveryGateAnyStatus(newStatus) ==
  IF newStatus # "delivered" THEN "ok"
  ELSE IF deliveryBalanceDue(billing, payments) > DeliveryTolerance
         THEN "PaymentIncomplete"
  ELSE "ok"

(***************************************************************************)
(* The gate both status handlers run before updateStatus.                  *)
(***************************************************************************)
deliveryGate(newStatus) ==
  IF newStatus # "delivered" THEN "ok"
  ELSE IF status # "ready" THEN "InvalidTransition"
  ELSE IF deliveryBalanceDue(billing, payments) > DeliveryTolerance
         THEN "PaymentIncomplete"
  ELSE "ok"

(***************************************************************************)
(* PUT /admin/jobcards/:id                                                 *)
(***************************************************************************)
updateJobCard(newStatus) ==
  /\ jobReq' = <<"updateJobCard", newStatus>>
  /\ IF newStatus # status
       THEN LET gate == deliveryGate(newStatus)
            IN  IF gate # "ok"
                  THEN /\ jobResult' = gate
                       /\ UNCHANGED <<status, statusHistory>>
                  ELSE /\ Len(statusHistory) < MaxHistory
                       /\ updateStatus(newStatus)
                       /\ jobResult' = "ok"
       ELSE /\ jobResult' = "ok"
            /\ UNCHANGED <<status, statusHistory>>
  /\ UNCHANGED <<jobItems, billing, payments, refunding, gatewayVars, stockVars>>

(***************************************************************************)
(* PATCH /mechanic/jobcards/:id/status (status validated by                *)
(* mechanicUpdateStatusValidation, the mechanic being assigned).           *)
(***************************************************************************)
updateAssignedJobCardStatus(newStatus) ==
  /\ jobReq' = <<"updateAssignedJobCardStatus", newStatus>>
  /\ IF newStatus \notin MechanicStatuses
       THEN /\ jobResult' = "ValidationError"
            /\ UNCHANGED <<status, statusHistory>>
       ELSE IF newStatus # status
         THEN LET gate == deliveryGate(newStatus)
              IN  IF gate # "ok"
                    THEN /\ jobResult' = gate
                         /\ UNCHANGED <<status, statusHistory>>
                    ELSE /\ Len(statusHistory) < MaxHistory
                         /\ updateStatus(newStatus)
                         /\ jobResult' = "ok"
         ELSE /\ jobResult' = "ok"
              /\ UNCHANGED <<status, statusHistory>>
  /\ UNCHANGED <<jobItems, billing, payments, refunding, gatewayVars, stockVars>>

(***************************************************************************)
(* The line total addJobItem stores.                                       *)
(***************************************************************************)
itemTotal(in) ==
  LET lineTotal == in.quantity * in.unitPrice
      safeDiscount == Min(Max(in.discount, 0), lineTotal)
  IN  Max(0, lineTotal - safeDiscount)

(***************************************************************************)
(* POST /admin/jobcards/:id/items                                          *)
(***************************************************************************)
\* a handler that never asks for approval
forcesApprovalNever(st) == FALSE

\* the statuses in which an added item sends the job back for approval
forcesApproval(st) == st \in {"inspection", "in-progress"}

addJobItem(in) ==
  /\ Len(jobItems) < MaxItems
  /\ jobReq' = <<"addJobItem", "-">>
  /\ jobItems' = Append(jobItems, [total |-> itemTotal(in), isApproved |-> FALSE])
  /\ IF forcesApproval(status)
       THEN /\ Len(statusHistory) < MaxHistory
            /\ updateStatus("awaiting-approval")
       ELSE UNCHANGED <<status, statusHistory>>
  /\ jobResult' = "ok"
  /\ UNCHANGED <<billing, payments, refunding, gatewayVars, stockVars>>

(***************************************************************************)
(* DELETE /admin/jobcards/:id/items/:itemId (the item named by position)   *)
(***************************************************************************)
removeJobItem(i) ==
  /\ jobReq' = <<"removeJobItem", "-">>
  /\ IF i \notin 1..Len(jobItems)
       THEN /\ jobResult' = "NotFound"
            /\ UNCHANGED <<jobItems, billing>>
       ELSE LET rest == SubSeq(jobItems, 1, i - 1) \o SubSeq(jobItems, i + 1, Len(jobItems))
            IN  /\ jobItems' = rest
                /\ billing' = calculateBilling(rest, billing, FALSE)
                /\ jobResult' = "ok"
  /\ UNCHANGED <<status, statusHistory, payments, refunding, gatewayVars, stockVars>>

\* a filter that lets every item pass as approved
pendingItemsNone(items) == <<>>

\* the items still waiting for approval
pendingItems(items) == SelectSeq(items, LAMBDA it : ~it.isApproved)

(***************************************************************************)
(* PUT /jobcards/:id/approve (itemIds named by position)                   *)
(***************************************************************************)
approveJobItems(ids) ==
  /\ jobReq' = <<"approveJobItems", ids>>
  /\ IF status # "awaiting-approval"
       THEN /\ jobResult' = "NotFound"
            /\ UNCHANGED <<jobItems, billing, status, statusHistory>>
       ELSE LET approved == [k \in 1..Len(jobItems) |->
                               IF k \in ids
                                 THEN [jobItems[k] EXCEPT !.isApproved = TRUE]
                                 ELSE jobItems[k]]
            IN  /\ jobItems' = approved
                /\ billing' = calculateBilling(approved, billing, FALSE)
                /\ IF pendingItems(approved) = <<>>
                     THEN /\ Len(statusHistory) < MaxHistory
                          /\ updateStatus("approved")
                     ELSE UNCHANGED <<status, statusHistory>>
                /\ jobResult' = "ok"
  /\ UNCHANGED <<payments, refunding, gatewayVars, stockVars>>

(***************************************************************************)
(* PUT /admin/jobcards/:id/billing                                         *)
(***************************************************************************)
updateBilling(discount, taxRate) ==
  /\ jobReq' = <<"updateBilling", "-">>
  /\ billing' = calculateBilling(jobItems,
                   [billing EXCEPT !.discount = discount, !.taxRate = taxRate],
                   FALSE)
  /\ jobResult' = "ok"
  /\ UNCHANGED <<status, jobItems, statusHistory, payments, refunding, gatewayVars, stockVars>>

\* a limit that lets every amount pass
exceedsBalanceNever(paymentType, amount, balanceDue) == FALSE

\* the limit createPayment puts on the amount
exceedsBalance(paymentType, amount, balanceDue) ==
  paymentType # "refund" /\ amount > balanceDue

(***************************************************************************)
(* POST /admin/payments                                                    *)
(***************************************************************************)
createPayment(amount, paymentType, requestedStatus) ==
  LET balanceDue == billing.grandTotal - totalPaid(payments)
      st == IF requestedStatus = "pending" /\ paymentType # "refund"
              THEN "pending" ELSE "completed"
  IN  /\ jobReq' = <<"createPayment", paymentType, amount>>
      /\ IF exceedsBalance(paymentType, amount, balanceDue)
           THEN /\ jobResult' = "OutOfRange"
                /\ UNCHANGED payments
           ELSE /\ payments' = Append(payments,
                      [amount |-> amount, paymentType |-> paymentType, status |-> st,
                       refundOf |-> 0])
                /\ jobResult' = "ok"
      /\ UNCHANGED <<status, jobItems, statusHistory, billing, refunding, gatewayVars, stockVars>>

(***************************************************************************)
(* PUT /admin/payments/:id                                                 *)
(***************************************************************************)
updatePayment(i, newStatus) ==
  /\ i \in 1..Len(payments)
  /\ jobReq' = <<"updatePayment", newStatus>>
  /\ payments' = [payments EXCEPT ![i].status = newStatus]
  /\ jobResult' = "ok"
  /\ UNCHANGED <<status, jobItems, statusHistory, billing, refunding, gatewayVars, stockVars>>

(***************************************************************************)
(* POST /admin/payments/:id/refund.  The handler awaits two writes with no *)
(* transaction around them: Payment.create of the refund, then the save of *)
(* the original payment with status refunded.  Each write is one step;     *)
(* between them other requests run, and the save can fail.                 *)
(***************************************************************************)
\* a check that lets a payment of any status be refunded
refundCheckAnyStatus(payment, amount) ==
  IF amount > payment.amount THEN "OutOfRange" ELSE "ok"

\* the two checks before the writes
refundCheck(payment, amount) ==
  IF payment.status # "completed" THEN "InvalidState"
  ELSE IF amount > payment.amount THEN "OutOfRange"
  ELSE "ok"

\* the sequence s without its k-th element
RemoveAt(s, k) == SubSeq(s, 1, k - 1) \o SubSeq(s, k + 1, Len(s))

\* the lookup, the checks and the first write: Payment.create of the refund
processRefund(i, amount) ==
  /\ i \in 1..Len(payments)
  /\ jobReq' = <<"processRefund", i, amount>>
  /\ LET check == refundCheck(payments[i], amount)
     IN  IF check # "ok"
           THEN /\ jobResult' = check
                /\ UNCHANGED <<payments, refunding>>
           ELSE /\ payments' = Append(payments,
                      [amount |-> amount, paymentType |-> "refund", status |-> "completed",
                       refundOf |-> i])
                /\ refunding' = Append(refunding, [idx |-> i, amount |-> amount])
                /\ jobResult' = "-"
  /\ UNCHANGED <<status, jobItems, statusHistory, billing, gatewayVars, stockVars>>

\* the second write: originalPayment.save() with status refunded
saveOriginalPayment(k) ==
  /\ k \in 1..Len(refunding)
  /\ jobReq' = <<"processRefund.save", refunding[k].idx, refunding[k].amount>>
  /\ payments' = [payments EXCEPT ![refunding[k].idx].status = "refunded"]
  /\ refunding' = RemoveAt(refunding, k)
  /\ jobResult' = "ok"
  /\ UNCHANGED <<status, jobItems, statusHistory, billing, gatewayVars, stockVars>>

\* the second write fails (database error, process stopped): the error
\* handler answers, nothing undoes the first write
saveOriginalPaymentFails(k) ==
  /\ k \in 1..Len(refunding)
  /\ jobReq' = <<"processRefund.save", refunding[k].idx, refunding[k].amount>>
  /\ refunding' = RemoveAt(refunding, k)
  /\ jobResult' = "ServerError"
  /\ UNCHANGED <<status, jobItems, statusHistory, billing, payments, gatewayVars, stockVars>>

(***************************************************************************)
(* The payment gateway.  A payment holds the checkout token and its expiry *)
(* (payment.checkout) and the order bound to it                            *)
(* (payment.transactionDetails.orderId).                                   *)
(***************************************************************************)
NoCheckout == [token |-> "none", expiresAt |-> 0, orderId |-> <<>>]

\* crypto.createHmac("sha256", key).update(body).digest("hex"): a value that
\* names its key and its body, different for different keys or bodies
hmacSha256(key, body) == <<"hmac", key, body>>

\* `${razorpay_order_id}|${razorpay_payment_id}`
signedBody(orderId, paymentId) == orderId \o <<"|">> \o paymentId

Signatures ==
  { hmacSha256(k, signedBody(o, p)) : k \in Keys, o \in OrderIds, p \in GatewayPaymentIds }

\* a comparison that accepts every signature
signatureMismatchNever(expectedSignature, signature) == FALSE

\* expectedSignature !== razorpay_signature
signatureMismatch(expectedSignature, signature) == expectedSignature # signature

\* Payment.findOne({ "checkout.token": token }): 0 when there is none
findByToken(token) ==
  LET holders == {i \in 1..Len(payments) : gateway[i].token = token}
  IN  IF holders = {} THEN 0 ELSE CHOOSE i \in holders : \A j \in holders : i <= j

\* POST /payments/:id/razorpay/order: the order the gateway creates has any
\* id; the token is new
createRazorpayOrderForPayment(i, orderId, token) ==
  /\ i \in 1..Len(payments)
  /\ \A j \in 1..Len(payments) : gateway[j].token # token
  /\ jobReq' = <<"createRazorpayOrderForPayment", i>>
  /\ LET balanceDue == billing.grandTotal - totalPaid(payments)
     IN  IF payments[i].status # "pending"
           THEN /\ jobResult' = "InvalidState"
                /\ UNCHANGED gateway
         ELSE IF payments[i].amount > balanceDue
           THEN /\ jobResult' = "OutOfRange"
                /\ UNCHANGED gateway
         ELSE /\ gateway' = [gateway EXCEPT ![i] =
                     [token |-> token,
                      expiresAt |-> now + CHECKOUT_TOKEN_TTL_MINUTES,
                      orderId |-> orderId]]
              /\ jobResult' = "ok"
  /\ UNCHANGED <<status, jobItems, statusHistory, billing, payments, refunding,
                 now, stockVars>>

\* POST /payments/razorpay/verify
verifyRazorpayPayment(token, paymentId, orderId, signature) ==
  /\ jobReq' = <<"verifyRazorpayPayment", token, paymentId, orderId, signature>>
  /\ LET i == findByToken(token)
     IN  IF i = 0 \/ payments[i].status # "pending"
           THEN /\ jobResult' = "NotFound"
                /\ UNCHANGED <<payments, gateway>>
         ELSE IF gateway[i].expiresAt < now
           THEN /\ jobResult' = "Expired"
                /\ UNCHANGED <<payments, gateway>>
         ELSE IF gateway[i].orderId = <<>> \/ gateway[i].orderId # orderId
           THEN /\ jobResult' = "OrderMismatch"
                /\ UNCHANGED <<payments, gateway>>
         ELSE IF signatureMismatch(
                   hmacSha256(RAZORPAY_KEY_SECRET, signedBody(orderId, paymentId)),
                   signature)
           THEN /\ jobResult' = "SignatureInvalid"
                /\ UNCHANGED <<payments, gateway>>
         ELSE /\ payments' = [payments EXCEPT ![i].status = "completed"]
              /\ gateway' = [gateway EXCEPT ![i].token = "none", ![i].expiresAt = 0]
              /\ jobResult' = "ok"
  /\ UNCHANGED <<status, jobItems, statusHistory, billing, refunding, now, stockVars>>

\* time passes between two requests
Tick ==
  /\ \E d \in ElapsedMinutes :
       /\ now + d <= MaxTime
       /\ now' = now + d
  /\ UNCHANGED <<status, jobItems, statusHistory, billing, payments, jobReq,
                 jobResult, refunding, gateway, stockVars>>

(***************************************************************************)
(* The inventory controller.  A handler is a process: each of its awaited  *)
(* database calls is one step.  The database is modelled as the code uses  *)
(* it: a session with a transaction reads the snapshot taken at its first  *)
(* read plus its own writes, a write to a document another transaction     *)
(* wrote (uncommitted, or committed after the snapshot) fails with a write *)
(* conflict, transactionNumber is unique, and a failed operation aborts    *)
(* the whole transaction.                                                  *)
(***************************************************************************)
NoItem == [exists |-> FALSE, currentStock |-> 0]

EmptyInventory == [i \in Items |-> NoItem]

FreshTxn ==
  [pc |-> "idle", op |-> "none", parts |-> <<>>, reason |-> "-", ref |-> "-",
   idx |-> 0, snap |-> EmptyInventory, stale |-> {}, entries |-> <<>>,
   pending |-> <<>>, errors |-> <<>>, result |-> "-", alerts |-> {},
   alert |-> "-"]

ActivePcs == {"line", "insert", "end"}

\* Inventory.minStock of the items (createSparePart: minStock || 5)
minStock == [i \in Items |-> IF i = "A" THEN 1 ELSE 5]

Range(f) == {f[k] : k \in DOMAIN f}

RECURSIVE SumQuantity(_)
SumQuantity(es) ==
  IF es = <<>> THEN 0 ELSE Head(es).quantity + SumQuantity(Tail(es))

\* what a find inside the transaction returns for the stock of item i
view(t, i) ==
  LET own == SelectSeq(t.entries \o t.pending, LAMBDA e : e.inventory = i)
  IN  IF own = <<>> THEN t.snap[i].currentStock ELSE own[Len(own)].newStock

\* the documents the transaction has written
written(t) == {e.inventory : e \in Range(t.entries \o t.pending)}

\* a database that lets the later writer overwrite
writeConflictNever(p, i) == FALSE

\* sparePart.save({ session }) meets a write of another transaction
writeConflict(p, i) ==
  \/ i \in txn[p].stale
  \/ \E q \in Procs \ {p} : txn[q].pc \in ActivePcs /\ i \in written(txn[q])

\* inventoryTransactionSchema.pre("save"): count the committed documents
transactionNumber == Len(ledger) + 1

\* the number JavaScript's -, < and unary minus, and the schema's cast to
\* Number, make of a quantity
toNumber(q) == q.n

\* previousStock + quantity, then cast to Number by the schema: the sum of
\* two numbers, but the concatenation of the digits when quantity is a string
jsPlus(prev, q) == IF q.str THEN prev * 10 + q.n ELSE prev + q.n

\* type, signed quantity and new stock each handler computes for one line
lineEffect(op, reason, prev, q) ==
  CASE op = "addStock" ->
         [type |-> "purchase", quantity |-> toNumber(q), newStock |-> jsPlus(prev, q)]
    [] op = "deductStock" ->
         [type |-> IF reason = "damage" THEN "damage" ELSE "adjustment",
          quantity |-> 0 - toNumber(q), newStock |-> prev - toNumber(q)]
    [] op = "adjustStock" ->
         [type |-> "adjustment", quantity |-> toNumber(q) - prev,
          newStock |-> toNumber(q)]
    [] op = "deductForInvoice" ->
         [type |-> "sale", quantity |-> 0 - toNumber(q),
          newStock |-> prev - toNumber(q)]
    [] op = "returnFromInvoice" ->
         [type |-> "return", quantity |-> toNumber(q), newStock |-> jsPlus(prev, q)]

\* a handler without the stock check
insufficientNever(op, prev, q) == FALSE

\* the stock check of deductStock and deductForInvoice
insufficient(op, prev, q) ==
  op \in {"deductStock", "deductForInvoice"} /\ prev < toNumber(q)

\* what the caller gets once the catch block has run abortTransaction:
\* aborting a session that was already aborted throws in its turn
catchBlock(thrown, sessionState) ==
  IF sessionState = "aborted" THEN "MongoTransactionError" ELSE thrown

\* a handler that commits whatever the loop collected
batchOutcomeAlwaysCommit(errors) == "commit"

\* the decision after the loop of deductForInvoice
batchOutcome(errors) == IF errors # <<>> THEN "abort" ELSE "commit"

\* the response: the session is ended, the caller sees result and errors
finished(t, res) ==
  [FreshTxn EXCEPT !.op = t.op, !.idx = t.idx, !.errors = t.errors,
                   !.result = res]

\* an error thrown inside the try block: the transaction is rolled back
abort(p, res) ==
  /\ txn' = [txn EXCEPT ![p] = finished(txn[p], catchBlock(res, "in-progress"))]
  /\ UNCHANGED <<inventory, ledger>>

\* startSession, startTransaction and the first find, which fixes the snapshot
begin(p, op, parts, reason, ref) ==
  /\ txn[p].pc = "idle"
  /\ txn' = [txn EXCEPT ![p] =
               [FreshTxn EXCEPT !.pc = "line", !.op = op, !.parts = parts,
                                !.reason = reason, !.ref = ref, !.idx = 1,
                                !.snap = inventory]]
  /\ UNCHANGED <<inventory, ledger>>

(***************************************************************************)
(* POST /admin/inventory/:id/stock/add                                     *)
(***************************************************************************)
addStock(p, i, q) ==
  /\ begin(p, "addStock", <<[partId |-> i, quantity |-> q]>>, "-", "-")
  /\ UNCHANGED jobVars

(***************************************************************************)
(* POST /admin/inventory/:id/stock/deduct                                  *)
(***************************************************************************)
deductStock(p, i, q, reason) ==
  /\ begin(p, "deductStock", <<[partId |-> i, quantity |-> q]>>, reason, "-")
  /\ UNCHANGED jobVars

(***************************************************************************)
(* POST /admin/inventory/:id/stock/adjust                                  *)
(***************************************************************************)
adjustStock(p, i, newQuantity) ==
  /\ IF toNumber(newQuantity) < 0
       THEN /\ txn[p].pc = "idle"
            /\ txn' = [txn EXCEPT ![p] =
                 [FreshTxn EXCEPT !.op = "adjustStock",
                                  !.result = "ValidationError"]]
            /\ UNCHANGED <<inventory, ledger>>
       ELSE begin(p, "adjustStock", <<[partId |-> i, quantity |-> newQuantity]>>, "-", "-")
  /\ UNCHANGED jobVars

(***************************************************************************)
(* POST /admin/inventory/deduct-for-invoice                                *)
(***************************************************************************)
deductForInvoice(p, parts, jobCardId) ==
  /\ begin(p, "deductForInvoice", parts, "-", jobCardId)
  /\ UNCHANGED jobVars

(***************************************************************************)
(* POST /admin/inventory/return-from-invoice                               *)
(***************************************************************************)
returnFromInvoice(p, parts, jobCardId) ==
  /\ begin(p, "returnFromInvoice", parts, "-", jobCardId)
  /\ UNCHANGED jobVars

(***************************************************************************)
(* One pass of the handler over a part: find, check, save the item, and    *)
(* the pre-save hook of the ledger entry about to be created.              *)
(***************************************************************************)
processLine(p) ==
  LET t == txn[p]
      part == t.parts[t.idx]
      i == part.partId
      q == part.quantity
      prev == view(t, i)
      eff == lineEffect(t.op, t.reason, prev, q)
      nextPc == IF t.idx = Len(t.parts) THEN "end" ELSE "line"
      skip(errs) == [txn EXCEPT ![p].idx = t.idx + 1, ![p].pc = nextPc,
                                ![p].errors = errs]
  IN  /\ t.pc = "line"
      /\ IF ~t.snap[i].exists
           THEN IF t.op = "deductForInvoice"
                  THEN /\ txn' = skip(Append(t.errors, [partId |-> i, error |-> "NotFound"]))
                       /\ UNCHANGED <<inventory, ledger>>
                ELSE IF t.op = "returnFromInvoice"
                  THEN /\ txn' = skip(t.errors)
                       /\ UNCHANGED <<inventory, ledger>>
                ELSE abort(p, "NotFound")
         ELSE IF insufficient(t.op, prev, q)
           THEN IF t.op = "deductForInvoice"
                  THEN /\ txn' = skip(Append(t.errors,
                                   [partId |-> i, error |-> "InsufficientStock"]))
                       /\ UNCHANGED <<inventory, ledger>>
                  ELSE abort(p, "InsufficientStock")
         ELSE IF eff.newStock < 0
           THEN abort(p, "ValidationError")
         ELSE IF writeConflict(p, i)
           THEN abort(p, "WriteConflict")
         ELSE /\ txn' = [txn EXCEPT ![p].pc = "insert", ![p].pending =
                   <<[inventory |-> i, type |-> eff.type, quantity |-> eff.quantity,
                      previousStock |-> prev, newStock |-> eff.newStock,
                      ref |-> t.ref, number |-> transactionNumber,
                      initial |-> FALSE]>>]
              /\ UNCHANGED <<inventory, ledger>>
      /\ UNCHANGED jobVars

(***************************************************************************)
(* InventoryTransaction.create([...], { session }): the insert.            *)
(***************************************************************************)
insertTransaction(p) ==
  LET t == txn[p]
      e == t.pending[1]
      duplicate == \/ \E k \in 1..Len(ledger) : ledger[k].number = e.number
                   \/ \E k \in 1..Len(t.entries) : t.entries[k].number = e.number
      heldByOther == \E q \in Procs \ {p} :
                       /\ txn[q].pc \in ActivePcs
                       /\ \E k \in 1..Len(txn[q].entries) :
                            txn[q].entries[k].number = e.number
  IN  /\ t.pc = "insert"
      /\ IF duplicate THEN abort(p, "DuplicateKey")
         ELSE IF heldByOther THEN abort(p, "WriteConflict")
         ELSE /\ txn' = [txn EXCEPT ![p].entries = Append(t.entries, e),
                                    ![p].pending = <<>>,
                                    ![p].idx = t.idx + 1,
                                    ![p].pc = IF t.idx = Len(t.parts)
                                                THEN "end" ELSE "line"]
              /\ UNCHANGED <<inventory, ledger>>
      /\ UNCHANGED jobVars

\* the items whose low-stock check follows the commit: deductStock and
\* adjustStock compare the stock they wrote with minStock at once,
\* deductForInvoice reads each item of its results again
alertsAfterCommit(t) ==
  CASE t.op \in {"deductStock", "adjustStock"} ->
         {i \in written(t) : view(t, i) <= minStock[i]}
    [] t.op = "deductForInvoice" -> written(t)
    [] OTHER -> {}

\* a handler in which a failed notification fails the request
alertOutcomeThrows(result, delivered) ==
  IF delivered THEN result ELSE "NotificationFailed"

\* sendLowStockAlert catches what its body throws: the answer stays
alertOutcome(result, delivered) == result

(***************************************************************************)
(* After the loop: deductForInvoice aborts and throws if a line failed;    *)
(* otherwise commitTransaction makes the writes visible together.          *)
(***************************************************************************)
endTransaction(p) ==
  LET t == txn[p]
      outcome == IF t.op = "deductForInvoice" THEN batchOutcome(t.errors)
                 ELSE "commit"
  IN  /\ t.pc = "end"
      /\ IF outcome = "abort"
           THEN /\ txn' = [txn EXCEPT ![p] =
                     finished(t, catchBlock("BatchFailure", "aborted"))]
                /\ UNCHANGED <<inventory, ledger>>
           ELSE /\ inventory' = [i \in Items |->
                     IF i \in written(t)
                       THEN [exists |-> TRUE, currentStock |-> view(t, i)]
                       ELSE inventory[i]]
                /\ ledger' = ledger \o t.entries
                /\ txn' = [q \in Procs |->
                     IF q = p
                       THEN IF alertsAfterCommit(t) = {} THEN finished(t, "ok")
                            ELSE [finished(t, "ok") EXCEPT
                                    !.pc = "notify",
                                    !.alerts = alertsAfterCommit(t)]
                     ELSE IF txn[q].pc \in ActivePcs
                       THEN [txn[q] EXCEPT !.stale = @ \cup written(t)]
                     ELSE txn[q]]
      /\ UNCHANGED jobVars

(***************************************************************************)
(* After the commit: sendLowStockAlert for the items at or below minStock, *)
(* delivered or not, and then the response the handler had ready.          *)
(***************************************************************************)
sendLowStockAlert(p, delivered) ==
  LET t == txn[p]
      low == IF t.op = "deductForInvoice"
               THEN {i \in t.alerts : inventory[i].currentStock <= minStock[i]}
               ELSE t.alerts
  IN  /\ t.pc = "notify"
      /\ txn' = [txn EXCEPT ![p] =
           [t EXCEPT !.pc = "idle",
                     !.alerts = {},
                     !.alert = IF low = {} THEN "-"
                               ELSE IF delivered THEN "sent" ELSE "failed",
                     !.result = IF low = {} THEN t.result
                                ELSE alertOutcome(t.result, delivered)]]
      /\ UNCHANGED <<inventory, ledger, jobVars>>

(***************************************************************************)
(* POST /admin/inventory: Inventory.create, outside any transaction, and   *)
(* the pre-save hook of the initial ledger entry.                          *)
(***************************************************************************)
createSparePart(p, i, currentStock) ==
  /\ txn[p].pc = "idle"
  /\ ~inventory[i].exists
  /\ inventory' = [inventory EXCEPT ![i] =
                     [exists |-> TRUE, currentStock |-> currentStock]]
  /\ txn' = [txn EXCEPT ![p] =
       IF currentStock > 0
         THEN [FreshTxn EXCEPT !.pc = "createInsert", !.op = "createSparePart",
                 !.parts = <<[partId |-> i, quantity |-> Num(currentStock)]>>,
                 !.pending = <<[inventory |-> i, type |-> "purchase",
                                quantity |-> currentStock, previousStock |-> 0,
                                newStock |-> currentStock, ref |-> "-",
                                number |-> transactionNumber, initial |-> TRUE]>>]
         ELSE [FreshTxn EXCEPT !.op = "createSparePart", !.result = "ok"]]
  /\ UNCHANGED <<ledger, jobVars>>

(***************************************************************************)
(* createSparePart: InventoryTransaction.create of the initial entry.      *)
(* The insert waits for a transaction that holds the same number.          *)
(***************************************************************************)
insertInitialTransaction(p) ==
  LET t == txn[p]
      e == t.pending[1]
      duplicate == \E k \in 1..Len(ledger) : ledger[k].number = e.number
      heldByOther == \E q \in Procs \ {p} :
                       /\ txn[q].pc \in ActivePcs
                       /\ \E k \in 1..Len(txn[q].entries) :
                            txn[q].entries[k].number = e.number
  IN  /\ t.pc = "createInsert"
      /\ ~heldByOther
      /\ IF duplicate
           THEN /\ txn' = [txn EXCEPT ![p] = finished(t, "DuplicateKey")]
                /\ UNCHANGED ledger
           ELSE /\ ledger' = Append(ledger, e)
                /\ txn' = [txn EXCEPT ![p] = finished(t, "ok")]
      /\ UNCHANGED <<inventory, jobVars>>

(***************************************************************************)
(* The job card as createJobCard stores it: status created, one history    *)
(* entry, the request's items, the schema's billing defaults.              *)
(***************************************************************************)
createJobCard(items) ==
  /\ status = "created"
  /\ statusHistory = <<"created">>
  /\ jobItems = items
  /\ billing = [subtotal |-> 0, discount |-> 0, taxRate |-> DefaultTaxRate,
                taxAmount |-> 0, grandTotal |-> 0]
  /\ payments = <<>>
  /\ refunding = <<>>
  /\ gateway = [i \in 1..MaxPayments |-> NoCheckout]
  /\ now = 0
  /\ jobReq = <<"createJobCard", "-">>
  /\ jobResult = "ok"

\* the empty inventory database, no request in flight
InitStock ==
  /\ inventory = EmptyInventory
  /\ ledger = <<>>
  /\ txn = [p \in Procs |-> FreshTxn]

InitJob ==
  /\ \E items \in {<<>>, <<[total |-> 100000, isApproved |-> FALSE]>>} :
       createJobCard(items)
  /\ InitStock

JobItemRequests ==
  \/ \E in \in AddItemInputs : addJobItem(in)
  \/ \E i \in 1..MaxItems : removeJobItem(i)
  \/ \E ids \in (SUBSET (1..MaxItems)) \ {{}} : approveJobItems(ids)
  \/ \E d \in BillDiscounts, t \in TaxRates : updateBilling(d, t)

\* the payment requests, with at most maxPayments payments stored and
\* maxRefunding refunds between their writes
PaymentRequestsWithin(maxPayments, maxRefunding) ==
  \/ \E a \in PayAmounts, t \in PaymentTypes, s \in {"pending", "completed"} :
       createPayment(a, t, s) /\ Len(payments') <= maxPayments
  \/ \E i \in 1..maxPayments, s \in PaymentStatuses : updatePayment(i, s)
  \/ \E i \in 1..maxPayments, a \in RefundAmounts :
       /\ processRefund(i, a)
       /\ Len(payments') <= maxPayments
       /\ Len(refunding') <= maxRefunding
  \/ \E k \in 1..maxRefunding : saveOriginalPayment(k)
  \/ \E k \in 1..maxRefunding : saveOriginalPaymentFails(k)

PaymentRequests == PaymentRequestsWithin(MaxPayments, MaxRefunding)

(***************************************************************************)
(* SpecJob: the job-card handlers, any status requested.                   *)
(***************************************************************************)
NextJob ==
  \/ \E s \in JobStatusInputs : updateJobCard(s)
  \/ \E s \in MechanicStatuses \cup {"delivered"} : updateAssignedJobCardStatus(s)
  \/ JobItemRequests

SpecJob == InitJob /\ [][NextJob]_vars

(***************************************************************************)
(* SpecDelivery: the job-card and payment handlers around the delivery     *)
(* gate; the status requests are ready and delivered.                      *)
(***************************************************************************)
NextDelivery ==
  \/ \E s \in DeliveryStatusInputs : updateJobCard(s)
  \/ \E s \in DeliveryStatusInputs : updateAssignedJobCardStatus(s)
  \/ JobItemRequests
  \/ PaymentRequests

SpecDelivery == InitJob /\ [][NextDelivery]_vars

(***************************************************************************)
(* SpecGateway: billing, pending and completed payments, the gateway's     *)
(* order and verification requests, and the clock.                         *)
(***************************************************************************)
GatewayRequests ==
  \/ \E i \in 1..MaxPayments, o \in OrderIds, t \in Tokens :
       createRazorpayOrderForPayment(i, o, t)
  \/ \E t \in Tokens, p \in GatewayPaymentIds, o \in OrderIds, sig \in Signatures :
       verifyRazorpayPayment(t, p, o, sig)

NextGateway ==
  \/ \E d \in BillDiscounts, t \in TaxRates : updateBilling(d, t)
  \/ \E a \in PayAmounts, s \in {"pending", "completed"} :
       createPayment(a, "full", s) /\ Len(payments') <= MaxPayments
  \/ \E i \in 1..MaxPayments, s \in PaymentStatuses : updatePayment(i, s)
  \/ GatewayRequests
  \/ Tick

SpecGateway == InitJob /\ [][NextGateway]_vars

(***************************************************************************)
(* SpecRefund: billing, completed payments, payment updates and refunds,   *)
(* with room for one payment and one refund in flight more.                *)
(***************************************************************************)
NextRefund ==
  \/ \E d \in BillDiscounts, t \in TaxRates : updateBilling(d, t)
  \/ PaymentRequestsWithin(MaxPayments + 1, MaxRefunding + 1)

SpecRefund == InitJob /\ [][NextRefund]_vars

StatusRequest(st) ==
  /\ jobReq'[1] \in {"updateJobCard", "updateAssignedJobCardStatus"}
  /\ jobReq'[2] = st

C2_AnyOtherStatusInvalidTransition ==
  [][ (StatusRequest("delivered") /\ status # "ready")
        => (jobResult' = "InvalidTransition"
            /\ UNCHANGED <<status, statusHistory>>) ]_vars

\* C2 amended: delivered is entered only from ready, and a request to set
\* delivered in another status leaves status and statusHistory unchanged;
\* the admin handler answers InvalidTransition unless the job is already
\* delivered, when it answers success, and the mechanic route answers
\* ValidationError.
C2_DeliveredOnlyFromReady ==
  [][ /\ (status # "delivered" /\ status' = "delivered") => status = "ready"
      /\ (StatusRequest("delivered") /\ status # "ready")
            => /\ UNCHANGED <<status, statusHistory>>
               /\ jobResult' =
                    IF jobReq'[1] = "updateAssignedJobCardStatus"
                      THEN "ValidationError"
                    ELSE IF status = "delivered" THEN "ok"
                    ELSE "InvalidTransition" ]_vars

C2_Witness ==
  /\ jobReq = <<"updateJobCard", "delivered">>
  /\ jobResult = "InvalidTransition"
  /\ status \notin {"ready", "delivered"}
  /\ Len(statusHistory) > 1

\* C3: once the status is delivered or cancelled no operation changes the
\* status or the jobItems.
C3_TerminalStatesFrozen ==
  [][ (status = "delivered" \/ status = "cancelled")
        => (status' = status /\ jobItems' = jobItems) ]_vars

(***************************************************************************)
(* SpecBilling: calculateBilling applied to job cards drawn from bounded   *)
(* sets of items, discounts and tax rates.                                 *)
(***************************************************************************)
BillingItems ==
  { [total |-> 200000, isApproved |-> TRUE],
    [total |-> 100000, isApproved |-> FALSE],
    [total |-> 33336, isApproved |-> TRUE],
    [total |-> 12344, isApproved |-> FALSE] }

BillingItemLists ==
  {<<>>} \cup {<<a>> : a \in BillingItems}
         \cup {<<a, b>> : a \in BillingItems, b \in BillingItems}

BillingDiscounts == {0, 20000, 500000}

BillingTaxRates == {0, 5, 18}

InitBilling ==
  /\ \E items \in BillingItemLists : createJobCard(items)
  /\ InitStock

\* jobCard.calculateBilling({ onlyApproved })
recalculate(onlyApproved) ==
  /\ jobReq' = <<"calculateBilling", IF onlyApproved THEN "onlyApproved" ELSE "all">>
  /\ billing' = calculateBilling(jobItems, billing, onlyApproved)
  /\ jobResult' = "ok"
  /\ UNCHANGED <<status, jobItems, statusHistory, payments, refunding, gatewayVars, stockVars>>

NextBilling ==
  \/ \E onlyApproved \in BOOLEAN : recalculate(onlyApproved)
  \/ \E d \in BillingDiscounts, t \in BillingTaxRates : updateBilling(d, t)

SpecBilling == InitBilling /\ [][NextBilling]_vars

\* r is the fraction n / d rounded half up to a multiple of 0.01
IsRoundedHalfUp(r, n, d) ==
  /\ r % 10 = 0
  /\ (r - 5) * d <= n
  /\ n < (r + 5) * d

C11_BillingIdempotent ==
  \A onlyApproved \in BOOLEAN :
    LET once == calculateBilling(jobItems, billing, onlyApproved)
        twice == calculateBilling(jobItems, once, onlyApproved)
        blank == [billing EXCEPT !.subtotal = 0, !.taxAmount = 0, !.grandTotal = 0]
    IN  /\ twice = once
        /\ calculateBilling(jobItems, blank, onlyApproved) = once

C11_Witness ==
  /\ jobReq = <<"calculateBilling", "all">>
  /\ jobItems = <<[total |-> 12344, isApproved |-> FALSE]>>
  /\ billing.subtotal = 12340
  /\ billing.taxRate = 18
  /\ billing.grandTotal = calculateBilling(jobItems, billing, FALSE).grandTotal
  /\ billing.grandTotal > 0

\* C12: in every committed state of a job card the stored subtotal,
\* taxAmount and grandTotal are what the billing formula yields for the
\* current jobItems, discount and taxRate.
C12_BillingMatchesItems ==
  LET computed == calculateBilling(jobItems, billing, FALSE)
  IN  /\ billing.subtotal = computed.subtotal
      /\ billing.taxAmount = computed.taxAmount
      /\ billing.grandTotal = computed.grandTotal

\* C13: approveJobItems on a job in awaiting-approval marks exactly the
\* listed items approved and changes no other item; the status becomes
\* approved if no unapproved item remains and stays awaiting-approval
\* otherwise. On a job in any other status the call is rejected and changes
\* nothing.
C13_ApprovalTransition ==
  [][ (jobReq'[1] = "approveJobItems")
        => IF status = "awaiting-approval"
             THEN /\ jobResult' = "ok"
                  /\ Len(jobItems') = Len(jobItems)
                  /\ \A k \in 1..Len(jobItems) :
                       /\ jobItems'[k].total = jobItems[k].total
                       /\ jobItems'[k].isApproved
                            = (jobItems[k].isApproved \/ k \in jobReq'[2])
                  /\ status' = IF \A k \in 1..Len(jobItems') : jobItems'[k].isApproved
                                 THEN "approved" ELSE "awaiting-approval"
             ELSE /\ jobResult' # "ok"
                  /\ status' = status
                  /\ jobItems' = jobItems
                  /\ billing' = billing
                  /\ statusHistory' = statusHistory ]_vars

\* two items were waiting, one was approved: the job still waits
C13_Witness ==
  /\ jobReq[1] = "approveJobItems"
  /\ jobResult = "ok"
  /\ Len(jobItems) = 2
  /\ jobItems[1].isApproved
  /\ ~jobItems[2].isApproved
  /\ status = "awaiting-approval"

\* C14: a status request that would take a job with an unapproved item out
\* of awaiting-approval, other than to cancelled, is answered
\* ApprovalRequired and leaves the status unchanged.
C14_ApprovalRequired ==
  [][ (/\ jobReq'[1] \in {"updateJobCard", "updateAssignedJobCardStatus"}
       /\ jobReq'[2] \notin {"awaiting-approval", "cancelled"}
       /\ status = "awaiting-approval"
       /\ pendingItems(jobItems) # <<>>)
        => (status' = status /\ jobResult' = "ApprovalRequired") ]_vars

\* C15: recording a payment that is not a refund and whose amount exceeds
\* the balance due (grand total minus completed payments plus completed
\* refunds) is answered OutOfRange and creates no payment; an accepted
\* payment is stored with the amount requested.
C15_PaymentWithinBalance ==
  [][ (jobReq'[1] = "createPayment")
        => LET balance == billing.grandTotal - totalPaid(payments)
           IN  IF jobReq'[2] # "refund" /\ jobReq'[3] > balance
                 THEN jobResult' = "OutOfRange" /\ payments' = payments
                 ELSE /\ jobResult' = "ok"
                      /\ Len(payments') = Len(payments) + 1
                      /\ SubSeq(payments', 1, Len(payments)) = payments
                      /\ payments'[Len(payments')].amount = jobReq'[3]
                      /\ payments'[Len(payments')].paymentType = jobReq'[2] ]_vars

\* part of the bill is paid and a payment larger than the rest is refused
C15_Witness ==
  /\ jobReq[1] = "createPayment"
  /\ jobReq[2] = "full"
  /\ jobResult = "OutOfRange"
  /\ totalPaid(payments) > 0
  /\ billing.grandTotal - totalPaid(payments) > 0
  /\ jobReq[3] > billing.grandTotal - totalPaid(payments)

\* C16: while billing.grandTotal stays the same, no payment operation
\* (recording, update, refund) takes the sum of completed non-refund payments
\* minus completed refunds above billing.grandTotal.
C16_PaidNeverExceedsTotal ==
  [][ (/\ billing'.grandTotal = billing.grandTotal
       /\ totalPaid(payments) <= billing.grandTotal)
        => totalPaid(payments') <= billing'.grandTotal ]_vars

\* C17: a refund of a payment that is not completed is answered InvalidState,
\* a refund larger than the original payment is answered OutOfRange, and
\* either rejection creates no Payment and leaves the original as it was;
\* only a refund of a completed payment, of at most its amount, goes ahead
\* and is answered ok.
C17_RefundChecks ==
  [][ /\ (jobReq'[1] = "processRefund")
           => LET original == payments[jobReq'[2]]
                  amount == jobReq'[3]
              IN  IF original.status # "completed"
                    THEN jobResult' = "InvalidState" /\ payments' = payments
                  ELSE IF amount > original.amount
                    THEN jobResult' = "OutOfRange" /\ payments' = payments
                  ELSE /\ jobResult' \notin {"InvalidState", "OutOfRange"}
                       /\ payments' = Append(payments,
                             [amount |-> amount, paymentType |-> "refund",
                              status |-> "completed", refundOf |-> jobReq'[2]])
      /\ (jobReq'[1] = "processRefund.save" /\ jobResult' = "ok")
           => /\ jobReq'[3] <= payments[jobReq'[2]].amount
              /\ payments'[jobReq'[2]].status = "refunded" ]_vars

\* a refund larger than a completed payment has been refused
C17_Witness ==
  /\ jobReq[1] = "processRefund"
  /\ jobResult = "OutOfRange"
  /\ payments[jobReq[2]].status = "completed"
  /\ payments[jobReq[2]].paymentType = "full"
  /\ jobReq[3] > payments[jobReq[2]].amount

\* C18: the two writes of a refund are one unit: the step that creates the
\* refund Payment also sets the original payment to refunded, so no state
\* has the refund created while the original is still completed.
C18_RefundAtomic ==
  [][ (jobReq'[1] = "processRefund" /\ Len(payments') > Len(payments))
        => payments'[jobReq'[2]].status = "refunded" ]_vars

\* C19: gateway verification sets a payment to completed only if the token
\* is held by a pending payment, the token has not expired, the order id is
\* the one bound to that payment and the signature is HMAC-SHA256 of
\* orderId|paymentId under the server secret; with a wrong signature
\* (SignatureInvalid) or an expired token (Expired) the payment stays pending
\* and nothing is written.
C19_GatewayVerification ==
  [][ (jobReq'[1] = "verifyRazorpayPayment")
        => LET token == jobReq'[2]
               paymentId == jobReq'[3]
               orderId == jobReq'[4]
               signature == jobReq'[5]
               holders == {i \in 1..Len(payments) :
                             gateway[i].token = token /\ payments[i].status = "pending"}
               live == {i \in holders : now <= gateway[i].expiresAt}
               bound == {i \in live : gateway[i].orderId = orderId}
               signed == signature =
                           hmacSha256(RAZORPAY_KEY_SECRET, signedBody(orderId, paymentId))
           IN  /\ (payments' # payments)
                    => /\ bound # {}
                       /\ signed
                       /\ jobResult' = "ok"
                       /\ \E i \in bound :
                            payments' = [payments EXCEPT ![i].status = "completed"]
               /\ (bound # {} /\ ~signed)
                    => /\ jobResult' = "SignatureInvalid"
                       /\ payments' = payments
                       /\ gateway' = gateway
               /\ (holders # {} /\ live = {})
                    => /\ jobResult' = "Expired"
                       /\ payments' = payments
                       /\ gateway' = gateway
               /\ (jobResult' # "ok")
                    => payments' = payments /\ gateway' = gateway ]_vars

\* a signature made with another key over the right order and payment ids
\* has been refused for a pending payment whose token is still valid
C19_Witness ==
  /\ jobReq[1] = "verifyRazorpayPayment"
  /\ jobResult = "SignatureInvalid"
  /\ jobReq[5] = hmacSha256("guess", signedBody(jobReq[4], jobReq[3]))
  /\ \E i \in 1..Len(payments) :
       /\ gateway[i].token = jobReq[2]
       /\ gateway[i].orderId = jobReq[4]
       /\ gateway[i].expiresAt >= now
       /\ payments[i].status = "pending"

\* the order of the states a job card goes through
StateOrder ==
  <<"created", "inspection", "awaiting-approval", "approved", "in-progress",
    "quality-check", "ready", "delivered">>

IsNextState(from, to) ==
  \E k \in 1..(Len(StateOrder) - 1) : StateOrder[k] = from /\ StateOrder[k + 1] = to

\* C20: every change of the status is a step to the next state of the
\* order, the forced move to awaiting-approval when an item is added in
\* inspection or in-progress, or a move to cancelled from a state that is
\* not terminal; no status request skips states or moves backward.
C20_StateMachine ==
  [][ (status' # status)
        => \/ IsNextState(status, status')
           \/ /\ jobReq'[1] = "addJobItem"
              /\ status \in {"inspection", "in-progress"}
              /\ status' = "awaiting-approval"
           \/ /\ status' = "cancelled"
              /\ status \notin {"delivered", "cancelled"} ]_vars

RECURSIVE SumAmounts(_, _, _)
SumAmounts(ps, isRefund, st) ==
  IF ps = <<>> THEN 0
  ELSE (IF Head(ps).status = st /\ (Head(ps).paymentType = "refund") = isRefund
          THEN Head(ps).amount ELSE 0)
       + SumAmounts(Tail(ps), isRefund, st)

\* the payments the step created or changed are pending or failed, before
\* and after
OnlyUncountedChange ==
  /\ payments' # payments
  /\ Len(payments') >= Len(payments)
  /\ \A i \in 1..Len(payments') :
       IF i > Len(payments) THEN payments'[i].status \in {"pending", "failed"}
       ELSE payments'[i] # payments[i]
              => /\ payments[i].status \in {"pending", "failed"}
                 /\ payments'[i].status \in {"pending", "failed"}

\* C24: the balance due is grandTotal minus the completed non-refund
\* payments plus the completed refunds, and a step that only creates or
\* changes pending or failed payments leaves it as it was.
C24_BalanceFromCompleted ==
  [][ /\ reportedBalanceDue(billing', payments')
           = billing'.grandTotal - SumAmounts(payments', FALSE, "completed")
               + SumAmounts(payments', TRUE, "completed")
      /\ (OnlyUncountedChange /\ billing' = billing)
           => reportedBalanceDue(billing', payments') = reportedBalanceDue(billing, payments) ]_vars

\* a pending payment has been set to failed beside a completed one, which
\* alone is counted
C24_Witness ==
  /\ jobReq[1] = "updatePayment"
  /\ Len(payments) = 2
  /\ payments[1].status = "failed"
  /\ payments[2].status = "completed"
  /\ payments[2].paymentType = "full"
  /\ billing.grandTotal > 0
  /\ reportedBalanceDue(billing, payments) = billing.grandTotal - payments[2].amount

\* C26: adding an item appends an unapproved item; in inspection or
\* in-progress it forces the status to awaiting-approval, in any other
\* status it leaves the status as it was.
C26_AddItemForcesApproval ==
  [][ (jobReq'[1] = "addJobItem")
        => /\ jobResult' = "ok"
           /\ Len(jobItems') = Len(jobItems) + 1
           /\ SubSeq(jobItems', 1, Len(jobItems)) = jobItems
           /\ ~jobItems'[Len(jobItems')].isApproved
           /\ IF status \in {"inspection", "in-progress"}
                THEN status' = "awaiting-approval"
                ELSE status' = status ]_vars

\* an item added in in-progress has sent the job to awaiting-approval
C26_Witness ==
  /\ jobReq[1] = "addJobItem"
  /\ statusHistory = <<"created", "in-progress", "awaiting-approval">>
  /\ status = "awaiting-approval"
  /\ jobItems # <<>>
  /\ ~jobItems[Len(jobItems)].isApproved

\* C27: a completed payment never goes back to pending or failed; the only
\* change it ever sees is the flip of its status to refunded, made by a
\* refund, with its amount and type kept.
C27_CompletedIsTerminal ==
  [][ \A i \in 1..Len(payments) :
        (payments[i].status = "completed")
          => \/ payments'[i] = payments[i]
             \/ /\ payments'[i] = [payments[i] EXCEPT !.status = "refunded"]
                /\ jobReq'[1] = "processRefund.save"
                /\ jobReq'[2] = i ]_vars

\* C28: a job whose status is awaiting-approval has at least one unapproved
\* item, whatever items were added, removed or approved and whatever status
\* changes were made.
C28_AwaitingHasPending ==
  (status = "awaiting-approval") => pendingItems(jobItems) # <<>>

\* C29: a successful refund of amount r lowers the net paid of the job
\* (completed payments minus completed refunds) by exactly r: the write of
\* the refund Payment lowers it by r and the flip of the original to
\* refunded leaves it there; the net paid of a job whose only payment is
\* refunded in full is 0.
C29_RefundLowersNetPaidByAmount ==
  [][ /\ (jobReq'[1] = "processRefund" /\ Len(payments') > Len(payments))
           => totalPaid(payments') = totalPaid(payments) - jobReq'[3]
      /\ (/\ jobReq'[1] = "processRefund.save" /\ jobResult' = "ok"
          /\ payments[jobReq'[2]].paymentType # "refund")
           => totalPaid(payments') = totalPaid(payments) ]_vars

\* the amounts of the refunds made against payment i
RECURSIVE RefundedAgainst(_, _)
RefundedAgainst(ps, i) ==
  IF ps = <<>> THEN 0
  ELSE (IF Head(ps).paymentType = "refund" /\ Head(ps).refundOf = i
          THEN Head(ps).amount ELSE 0)
       + RefundedAgainst(Tail(ps), i)

\* C30: the refunds made against one payment never add up to more than the
\* payment's amount, whatever refunds and payment updates are made and
\* however they interleave.
C30_RefundedWithinAmount ==
  \A i \in 1..Len(payments) :
    (payments[i].paymentType # "refund")
      => RefundedAgainst(payments, i) <= payments[i].amount

(***************************************************************************)
(* The inventory handlers, run by the processes of P on the inputs of in,  *)
(* while the ledger has room for every entry the request may write.        *)
(***************************************************************************)
room(p, n, cap) ==
  LET other == CHOOSE q \in Procs : q # p
      reserved == IF txn[other].pc \in {"idle", "notify"} THEN 0
                  ELSE Len(txn[other].parts)
  IN  Len(ledger) + reserved + n <= cap

StockRequests(P, in, cap) ==
  \/ \E p \in P, i \in Items, c \in in.creates :
       room(p, 1, cap) /\ createSparePart(p, i, c)
  \/ \E p \in P : insertInitialTransaction(p)
  \/ \E p \in P, i \in Items, q \in in.quantities :
       room(p, 1, cap) /\ addStock(p, i, q)
  \/ \E p \in P, i \in Items, q \in in.quantities, r \in in.reasons :
       room(p, 1, cap) /\ deductStock(p, i, q, r)
  \/ \E p \in P, i \in Items, n \in in.adjustments :
       room(p, 1, cap) /\ adjustStock(p, i, n)
  \/ \E p \in P, parts \in in.parts, j \in JobCardIds :
       room(p, Len(parts), cap) /\ deductForInvoice(p, parts, j)
  \/ \E p \in P, parts \in in.parts, j \in JobCardIds :
       room(p, Len(parts), cap) /\ returnFromInvoice(p, parts, j)
  \/ \E p \in P : processLine(p)
  \/ \E p \in P : insertTransaction(p)
  \/ \E p \in P : endTransaction(p)
  \/ \E p \in P, delivered \in BOOLEAN : sendLowStockAlert(p, delivered)

InitStockOnly == createJobCard(<<>>) /\ InitStock

(***************************************************************************)
(* SpecStock: two request processes interleave step by step.               *)
(***************************************************************************)
ConcurrentInputs ==
  [creates |-> {0, 2}, quantities |-> {Num(2)}, reasons |-> {"damage"},
   adjustments |-> {Num(0 - 1), Num(1)},
   parts |-> { <<[partId |-> "A", quantity |-> Num(1)]>>,
               <<[partId |-> "A", quantity |-> Num(1)],
                 [partId |-> "B", quantity |-> Num(2)]>> }]

NextStock == StockRequests(Procs, ConcurrentInputs, MaxLedger)

SpecStock == InitStockOnly /\ [][NextStock]_vars

(***************************************************************************)
(* SpecStockSeq: one request at a time, on more inputs and a longer ledger.*)
(***************************************************************************)
SequentialInputs ==
  [creates |-> CreateStocks, quantities |-> StockQtys, reasons |-> DeductReasons,
   adjustments |-> AdjustQtys, parts |-> InvoiceParts]

NextStockSeq == StockRequests({1}, SequentialInputs, MaxLedger + 1)

SpecStockSeq == InitStockOnly /\ [][NextStockSeq]_vars

(***************************************************************************)
(* Properties of the stock engine.                                         *)
(***************************************************************************)
\* the step is one of process p (a commit of another process only marks
\* the documents it wrote in the stale set of p)
Steps(p) == [txn'[p] EXCEPT !.stale = txn[p].stale] # txn[p]

\* the handler leaves its transaction, the outcome decided
Finishes(p) ==
  /\ txn[p].pc \notin {"idle", "notify"}
  /\ txn'[p].pc \in {"idle", "notify"}

Rejected(p) == Steps(p) /\ txn'[p].result \notin {"ok", "-"}

\* the line the handler is about to process asks for more than it reads
WouldGoNegative(p) ==
  /\ txn[p].pc = "line"
  /\ txn[p].op \in {"deductStock", "deductForInvoice"}
  /\ LET part == txn[p].parts[txn[p].idx]
     IN  /\ txn[p].snap[part.partId].exists
         /\ view(txn[p], part.partId) < toNumber(part.quantity)

C5_FailedBatchChangesNothing ==
  [][ \A p \in Procs :
        /\ (Finishes(p) /\ txn[p].op = "deductForInvoice" /\ txn[p].errors # <<>>)
              => txn'[p].result \notin {"ok", "-"}
        /\ (Steps(p) /\ txn'[p].op = "deductForInvoice"
              /\ ~(txn[p].pc = "end" /\ txn[p].errors = <<>>))
              => (inventory' = inventory /\ ledger' = ledger) ]_vars

C5_Witness ==
  \E p \in Procs :
    /\ txn[p].op = "deductForInvoice"
    /\ txn[p].pc = "idle"
    /\ txn[p].result \notin {"ok", "-"}
    /\ txn[p].idx = 3
    /\ txn[p].errors = <<[partId |-> "B", error |-> "InsufficientStock"]>>
    /\ inventory["A"].currentStock > 0
    /\ \A k \in 1..Len(ledger) : ledger[k].type # "sale"

\* the quantity the lines ask of item i
RECURSIVE SumFor(_, _)
SumFor(parts, i) ==
  IF parts = <<>> THEN 0
  ELSE (IF Head(parts).partId = i THEN toNumber(Head(parts).quantity) ELSE 0)
       + SumFor(Tail(parts), i)

\* every line names an existing item and the stock covers what is asked of it
allLinesValid(t) ==
  \A i \in Items :
    SumFor(t.parts, i) > 0
      => (t.snap[i].exists /\ SumFor(t.parts, i) <= t.snap[i].currentStock)

\* C6: a deductForInvoice whose lines are all valid succeeds: each stock
\* decreases by the quantities of its lines and one sale entry per line,
\* referencing the job card, is written.
C6_ValidBatchSucceeds ==
  [][ \A p \in Procs :
        (Finishes(p) /\ txn[p].op = "deductForInvoice" /\ allLinesValid(txn[p]))
          => /\ txn'[p].result = "ok"
             /\ \A i \in Items :
                  inventory'[i].currentStock
                    = inventory[i].currentStock - SumFor(txn[p].parts, i)
             /\ Len(ledger') = Len(ledger) + Len(txn[p].parts)
             /\ \A k \in (Len(ledger) + 1)..Len(ledger') :
                  /\ ledger'[k].type = "sale"
                  /\ ledger'[k].ref = txn[p].ref ]_vars

entriesOf(i) == SelectSeq(ledger, LAMBDA e : e.inventory = i)

\* C7: whenever no request is in flight, the stock of an item is the
\* previousStock of its first ledger entry plus the quantities of all its
\* entries, and no stock is held without an entry.
C7_StockEqualsLedger ==
  (\A p \in Procs : txn[p].pc = "idle")
    => \A i \in Items :
         inventory[i].exists
           => LET es == entriesOf(i)
              IN  inventory[i].currentStock
                    = IF es = <<>> THEN 0
                      ELSE es[1].previousStock + SumQuantity(es)

\* C8: every ledger entry satisfies newStock = previousStock + quantity.
C8_EntryArithmetic ==
  \A k \in 1..Len(ledger) :
    ledger[k].newStock = ledger[k].previousStock + ledger[k].quantity

\* C9: the committed entries of an item written by stock operations form a
\* chain: each starts from the stock the previous one left, the first from
\* the initial stock, and the last leaves the current stock; so the
\* committed state is that of the operations run one after the other.
C9_SerialLedger ==
  \A i \in Items :
    LET all == entriesOf(i)
        ops == SelectSeq(all, LAMBDA e : ~e.initial)
        init == SelectSeq(all, LAMBDA e : e.initial)
    IN  /\ \A k \in 1..(Len(ops) - 1) : ops[k + 1].previousStock = ops[k].newStock
        /\ ops # <<>> => inventory[i].currentStock = ops[Len(ops)].newStock
        /\ (ops # <<>> /\ init # <<>>) => ops[1].previousStock = init[1].newStock

C9_Witness ==
  \E p \in Procs, q \in Procs :
    /\ txn[p].result = "WriteConflict"
    /\ txn[p].op = "deductStock"
    /\ txn[q].result = "ok"
    /\ txn[q].op = "deductStock"
    /\ \E k \in 1..Len(ledger) : ledger[k].type = "damage"

\* C21: a deductForInvoice batch with a line that lacks stock ends with the
\* BatchFailure error, which carries the failing lines, as the answer the
\* caller receives.
C21_BatchFailureReported ==
  [][ \A p \in Procs :
        (/\ Finishes(p)
         /\ txn[p].op = "deductForInvoice"
         /\ \E k \in 1..Len(txn[p].errors) :
              txn[p].errors[k].error = "InsufficientStock")
          => /\ txn'[p].result = "BatchFailure"
             /\ txn'[p].errors = txn[p].errors ]_vars

\* every line of the request names an item that exists
allLinesExist(t) == \A k \in 1..Len(t.parts) : t.snap[t.parts[k].partId].exists

\* C22: a returnFromInvoice whose lines all name existing items succeeds
\* whatever the stock levels: it credits each line's quantity and writes one
\* return entry per line referencing the job; one with a line naming an item
\* that does not exist is rejected with NotFound and nothing of it is applied.
C22_ReturnFromInvoice ==
  [][ \A p \in Procs :
        (Finishes(p) /\ txn[p].op = "returnFromInvoice")
          => IF allLinesExist(txn[p])
               THEN /\ txn'[p].result = "ok"
                    /\ \A i \in Items :
                         inventory'[i].currentStock
                           = inventory[i].currentStock + SumFor(txn[p].parts, i)
                    /\ Len(ledger') = Len(ledger) + Len(txn[p].parts)
                    /\ \A k \in (Len(ledger) + 1)..Len(ledger') :
                         /\ ledger'[k].type = "return"
                         /\ ledger'[k].ref = txn[p].ref
               ELSE /\ txn'[p].result = "NotFound"
                    /\ inventory' = inventory
                    /\ ledger' = ledger ]_vars

\* C25: a low-stock notification is attempted only after the commit of a
\* deduction, an adjustment or an invoice deduction that leaves an item at
\* or below minStock, and whether it is delivered or fails, stock and ledger
\* stay as committed and the request is answered with success.
C25_NotificationAfterCommit ==
  [][ \A p \in Procs :
        /\ (txn'[p].alert # txn[p].alert /\ txn'[p].alert # "-")
              => txn[p].pc = "notify"
        /\ (txn[p].pc # "notify" /\ txn'[p].pc = "notify")
              => /\ txn[p].pc = "end"
                 /\ txn'[p].result = "ok"
                 /\ ledger' = ledger \o txn[p].entries
                 /\ txn[p].entries # <<>>
        /\ (/\ txn[p].pc = "end" /\ txn'[p].pc \in {"idle", "notify"}
            /\ txn'[p].result = "ok"
            /\ txn[p].op \in {"deductStock", "adjustStock", "deductForInvoice"}
            /\ \E i \in written(txn[p]) : inventory'[i].currentStock <= minStock[i])
              => txn'[p].pc = "notify"
        /\ (txn[p].pc = "notify" /\ Steps(p))
              => /\ txn'[p].result = "ok"
                 /\ txn'[p].pc = "idle"
                 /\ inventory' = inventory
                 /\ ledger' = ledger ]_vars

\* a deduction is committed and answered with success although its
\* low-stock notification failed
C25_Witness ==
  \E p \in Procs :
    /\ txn[p].pc = "idle"
    /\ txn[p].op = "deductStock"
    /\ txn[p].alert = "failed"
    /\ txn[p].result = "ok"
    /\ \E k \in 1..Len(ledger) :
         /\ ledger[k].quantity < 0
         /\ ledger[k].newStock <= minStock[ledger[k].inventory]
         /\ inventory[ledger[k].inventory].currentStock = ledger[k].newStock

====
